---- MODULE Spec2Model ----
(***************************************************************************)
(* Model of ei_product_selfadjoint_vector                                  *)
(* (Eigen/src/Core/products/SelfadjointMatrixVector.h): res += alpha*A*x   *)
(* for a selfadjoint matrix A of which one triangle is stored.             *)
(*                                                                         *)
(* A Scalar is a pair <<re, im>> of integers (exact arithmetic); a real    *)
(* Scalar has im = 0.  Buffers are functions over 0-based offsets.         *)
(***************************************************************************)
EXTENDS Integers, Sequences, FiniteSets, TLC

VARIABLES
  size, IsRowMajor, IsLower, ConjugateLhs, ConjugateRhs, IsComplex,
  lhs, lhsStride, _rhs, rhsIncr, alpha, PacketSize, resAddr,
  res, pc, rhs, rhsPtr, bound, j, i, t0, t1, t2, t3, ptmp2, ptmp3,
  acquired, released, lhsReads, rhsReads, blockedCols, fallbackCols, covered,
  mode, resInit, resFirst

\* template parameters and arguments that the kernel never assigns
params == <<size, IsRowMajor, IsLower, ConjugateLhs, ConjugateRhs, IsComplex,
            lhs, lhsStride, alpha, PacketSize, resAddr>>
\* the operand as the caller passes it
operand == <<_rhs, rhsIncr>>
\* locals of one column pair
pairLocals == <<t0, t1, t2, t3, ptmp2, ptmp3>>
\* bookkeeping of the scratch buffer and of the reads
scratch == <<acquired, released>>
cols == <<blockedCols, fallbackCols>>
harness == <<mode, resInit, resFirst>>

vars == <<params, operand, res, pc, rhs, rhsPtr, bound, j, i, pairLocals,
          scratch, lhsReads, rhsReads, cols, covered, harness>>

----------------------------------------------------------------------------
\* Bounds of the model

\* largest matrix dimension explored (sizes 0..MaxSize)
MaxSize == 12

----------------------------------------------------------------------------
\* Scalar arithmetic

Zero == <<0, 0>>

CAdd(a, b) == <<a[1] + b[1], a[2] + b[2]>>

CMul(a, b) == <<a[1] * b[1] - a[2] * b[2], a[1] * b[2] + a[2] * b[1]>>

ei_conj(a) == <<a[1], -a[2]>>

\* ei_conj_helper<ConjLhs,ConjRhs>::pmul
conj_pmul(cl, cr, a, b) ==
  CMul(IF cl THEN ei_conj(a) ELSE a, IF cr THEN ei_conj(b) ELSE b)

Max(a, b) == IF a > b THEN a ELSE b

Min(a, b) == IF a < b THEN a ELSE b

\* sum of f[k] for k in lo..hi-1, in index order
RECURSIVE SumRange(_, _, _)
SumRange(f, lo, hi) ==
  IF lo >= hi THEN Zero ELSE CAdd(SumRange(f, lo, hi - 1), f[hi - 1])

\* ei_predux: horizontal sum of the lanes of a packet
ei_predux(p) == SumRange(p, 0, PacketSize)

\* ei_pset1: broadcast into the lanes of a packet
ei_pset1(s) == [l \in 0..(PacketSize - 1) |-> s]

\* ei_alignmentOffset(&res[first], maxOffset): elements to skip from res+first
\* to reach the next packet-aligned address, at most maxOffset
ei_alignmentOffset(first, maxOffset) ==
  IF PacketSize > 1
    THEN Min((PacketSize - ((resAddr + first) % PacketSize)) % PacketSize, maxOffset)
    ELSE 0

----------------------------------------------------------------------------
\* The kernel's derived constants

\* the switch taken the wrong way round
FirstTriangular_Flipped == IsRowMajor # IsLower

FirstTriangular == IsRowMajor = IsLower

\* EIGEN_LOGICAL_XOR
LogicalXor(a, b) == (a \/ b) /\ ~(a /\ b)

cj0(a, b) == conj_pmul(IsComplex /\ LogicalXor(ConjugateLhs, IsRowMajor), ConjugateRhs, a, b)

cj1(a, b) == conj_pmul(IsComplex /\ LogicalXor(ConjugateLhs, ~IsRowMajor), ConjugateRhs, a, b)

cjAlpha == IF ConjugateRhs THEN ei_conj(alpha) ELSE alpha

\* x & 0xfffffffE for 0 <= x < 2^31
ClearBit0(x) == x - (x % 2)

BoundValue ==
  LET b == ClearBit0(Max(0, size - 8))
  IN  IF FirstTriangular THEN size - b ELSE b

\* offset of A_c[k] = (lhs + c*lhsStride)[k]
Offset(c, k) == c * lhsStride + k

A0(k) == lhs[Offset(j, k)]

A1(k) == lhs[Offset(j + 1, k)]

BlockedLimit == IF FirstTriangular THEN size ELSE bound

\* the fallback loop starting one column late
FallbackFirst_SkipsOne == IF FirstTriangular THEN 1 ELSE bound + 1

FallbackFirst == IF FirstTriangular THEN 0 ELSE bound

FallbackLimit == IF FirstTriangular THEN bound ELSE size

\* the inner range starting one index early
starti_FromJPlus1 == IF FirstTriangular THEN 0 ELSE j + 1

\* split points of the inner range of the column pair (j, j+1)
starti == IF FirstTriangular THEN 0 ELSE j + 2

endi == IF FirstTriangular THEN j ELSE size

alignedStart == starti + ei_alignmentOffset(starti, endi - starti)

\* the body rounded up to a whole packet
alignedEnd_RoundUp ==
  alignedStart + ((endi - alignedStart + PacketSize - 1) \div PacketSize) * PacketSize

alignedEnd == alignedStart + ((endi - alignedStart) \div PacketSize) * PacketSize

----------------------------------------------------------------------------
\* Inputs of a call

Sizes == 0..MaxSize

\* lane counts of the packet type (1: not vectorized)
PacketSizes == {1, 2, 4}

\* element-to-element strides of the operand (1: contiguous)
OperandStrides == {1, 2, 3}

\* value held by memory the kernel has no business reading
Poison == <<1000, 1000>>

\* entry (r, c), r >= c, of the logical selfadjoint matrix: real diagonal
LowerEntry(cplx, r, c) ==
  <<((3 * r + 5 * c + 1) % 7) - 3,
    IF cplx /\ r # c THEN ((2 * r + c) % 5) - 2 ELSE 0>>

\* the full logical matrix, A[c][r] = conj(A[r][c])
Logical(cplx, r, c) ==
  IF r >= c THEN LowerEntry(cplx, r, c) ELSE ei_conj(LowerEntry(cplx, c, r))

OnStoredTriangle(lower, r, c) == IF lower THEN r >= c ELSE r <= c

\* the matrix buffer: stored triangle filled, everything else poisoned
MatrixBuffer(n, stride, rowMajor, lower, cplx) ==
  [k \in 0..(n * stride - 1) |->
     LET outer == k \div stride
         inner == k % stride
         r == IF rowMajor THEN outer ELSE inner
         c == IF rowMajor THEN inner ELSE outer
     IN  IF inner < n /\ OnStoredTriangle(lower, r, c)
           THEN Logical(cplx, r, c) ELSE Poison]

\* the logical operand
Operand(cplx, k) == <<((2 * k + 1) % 5) - 2, IF cplx THEN (k % 3) - 1 ELSE 0>>

\* the operand buffer with stride incr: padding elements poisoned
OperandBuffer(n, incr, cplx) ==
  [k \in 0..(n * incr - 1) |->
     IF k % incr = 0 THEN Operand(cplx, k \div incr) ELSE Poison]

Accumulators(n, cplx) ==
  { [k \in 0..(n - 1) |-> Zero],
    [k \in 0..(n - 1) |-> <<k + 1, IF cplx THEN 2 - k ELSE 0>>] }

Alphas(cplx) == IF cplx THEN {Zero, <<1, 2>>} ELSE {Zero, <<3, 0>>}

\* the locals before the first statement of a call
EntryLocals ==
  /\ pc = "entry"
  /\ rhs = << >>
  /\ rhsPtr = "none"
  /\ bound = 0
  /\ j = 0
  /\ i = 0
  /\ t0 = Zero /\ t1 = Zero /\ t2 = Zero /\ t3 = Zero
  /\ ptmp2 = << >> /\ ptmp3 = << >>
  /\ acquired = << >> /\ released = << >>
  /\ lhsReads = {} /\ rhsReads = {}
  /\ blockedCols = << >> /\ fallbackCols = << >>
  /\ covered = << >>

\* the same, on entry to a further call
EnterCall ==
  /\ pc' = "entry"
  /\ rhs' = << >>
  /\ rhsPtr' = "none"
  /\ bound' = 0
  /\ j' = 0
  /\ i' = 0
  /\ t0' = Zero /\ t1' = Zero /\ t2' = Zero /\ t3' = Zero
  /\ ptmp2' = << >> /\ ptmp3' = << >>
  /\ acquired' = << >> /\ released' = << >>
  /\ lhsReads' = {} /\ rhsReads' = {}
  /\ blockedCols' = << >> /\ fallbackCols' = << >>
  /\ covered' = << >>

Init ==
  /\ size \in Sizes
  /\ IsRowMajor \in BOOLEAN
  /\ IsLower \in BOOLEAN
  /\ IsComplex \in BOOLEAN
  \* NeedToConjugate is only ever set for complex scalars
  /\ ConjugateLhs \in (IF IsComplex THEN BOOLEAN ELSE {FALSE})
  /\ ConjugateRhs \in (IF IsComplex THEN BOOLEAN ELSE {FALSE})
  /\ lhsStride \in {size, size + 1}
  /\ lhs = MatrixBuffer(size, lhsStride, IsRowMajor, IsLower, IsComplex)
  /\ rhsIncr \in OperandStrides
  /\ _rhs = OperandBuffer(size, rhsIncr, IsComplex)
  /\ alpha \in Alphas(IsComplex)
  /\ PacketSize \in PacketSizes
  /\ resAddr \in 0..(PacketSize - 1)
  /\ res \in Accumulators(size, IsComplex)
  /\ resInit = res
  /\ resFirst = res
  /\ mode = "first"
  /\ EntryLocals

----------------------------------------------------------------------------
\* The kernel, statement by statement

\* the copy taken with stride 1
Materialized_IgnoresStride == [k \in 0..(size - 1) |-> _rhs[k]]

\* lines 59-62: the copy r of the strided operand, r[i] = *it, it += rhsIncr
Materialized == [k \in 0..(size - 1) |-> _rhs[k * rhsIncr]]

\* lines 52-70: cjAlpha, operand materialization, bound, first blocked column
Prologue ==
  /\ pc = "entry"
  /\ IF rhsIncr # 1
       THEN /\ rhs' = Materialized
            /\ rhsPtr' = "r"
            /\ acquired' = Append(acquired, "r")
            /\ rhsReads' = rhsReads \cup {k * rhsIncr : k \in 0..(size - 1)}
       ELSE /\ rhs' = _rhs
            /\ rhsPtr' = "_rhs"
            /\ UNCHANGED <<acquired, rhsReads>>
  /\ bound' = BoundValue
  /\ j' = (IF FirstTriangular THEN BoundValue ELSE 0)
  /\ pc' = "blocked"
  /\ UNCHANGED <<params, operand, res, i, pairLocals, released, lhsReads,
                 cols, covered, harness>>

\* lines 71-103: loop test, t0..t3, split points, the 2x2 diagonal block
PairBegin ==
  /\ pc = "blocked"
  /\ j < BlockedLimit
  /\ LET s0 == CMul(cjAlpha, rhs[j])
         s1 == CMul(cjAlpha, rhs[j + 1])
         rj == CAdd(res[j], cj0(A0(j), s0))
     IN  /\ t0' = s0
         /\ t1' = s1
         /\ IF FirstTriangular
              THEN /\ res' = [res EXCEPT
                                ![j + 1] = CAdd(res[j + 1], cj0(A1(j + 1), s1)),
                                ![j] = CAdd(rj, cj0(A1(j), s1))]
                   /\ t2' = Zero
                   /\ t3' = CAdd(Zero, cj1(A1(j), rhs[j]))
                   /\ lhsReads' = lhsReads \cup
                        {Offset(j, j), Offset(j + 1, j + 1), Offset(j + 1, j)}
              ELSE /\ res' = [res EXCEPT
                                ![j] = rj,
                                ![j + 1] = CAdd(res[j + 1],
                                                CAdd(cj0(A0(j + 1), s0), cj0(A1(j + 1), s1)))]
                   /\ t2' = CAdd(Zero, cj1(A0(j + 1), rhs[j + 1]))
                   /\ t3' = Zero
                   /\ lhsReads' = lhsReads \cup
                        {Offset(j, j), Offset(j, j + 1), Offset(j + 1, j + 1)}
  /\ ptmp2' = ei_pset1(Zero)
  /\ ptmp3' = ei_pset1(Zero)
  /\ i' = starti
  /\ covered' = << >>
  /\ pc' = "head"
  /\ UNCHANGED <<params, operand, rhs, rhsPtr, bound, j, scratch, rhsReads,
                 cols, harness>>

\* lines 105-110: one iteration of the scalar head
HeadStep ==
  /\ pc = "head"
  /\ i < alignedStart
  /\ res' = [res EXCEPT ![i] = CAdd(res[i], CAdd(CMul(t0, A0(i)), CMul(t1, A1(i))))]
  /\ t2' = CAdd(t2, CMul(ei_conj(A0(i)), rhs[i]))
  /\ t3' = CAdd(t3, CMul(ei_conj(A1(i)), rhs[i]))
  /\ lhsReads' = lhsReads \cup {Offset(j, i), Offset(j + 1, i)}
  /\ covered' = Append(covered, i)
  /\ i' = i + 1
  /\ UNCHANGED <<params, operand, pc, rhs, rhsPtr, bound, j, t0, t1, ptmp2, ptmp3,
                 scratch, rhsReads, cols, harness>>

\* lines 113-117: the head is over, the body starts at alignedStart
HeadExit ==
  /\ pc = "head"
  /\ ~(i < alignedStart)
  /\ i' = alignedStart
  /\ pc' = "body"
  /\ UNCHANGED <<params, operand, res, rhs, rhsPtr, bound, j, pairLocals,
                 scratch, lhsReads, rhsReads, cols, covered, harness>>

\* lines 117-128: one iteration of the vectorized body, PacketSize lanes
BodyStep ==
  /\ pc = "body"
  /\ i < alignedEnd
  /\ LET lanes == 0..(PacketSize - 1)
     IN  /\ res' = [k \in DOMAIN res |->
                      IF k \in i..(i + PacketSize - 1)
                        THEN CAdd(cj0(A0(k), t0), CAdd(cj0(A1(k), t1), res[k]))
                        ELSE res[k]]
         /\ ptmp2' = [l \in lanes |-> CAdd(cj1(A0(i + l), rhs[i + l]), ptmp2[l])]
         /\ ptmp3' = [l \in lanes |-> CAdd(cj1(A1(i + l), rhs[i + l]), ptmp3[l])]
         /\ lhsReads' = lhsReads \cup {Offset(j, i + l) : l \in lanes}
                                 \cup {Offset(j + 1, i + l) : l \in lanes}
         /\ covered' = covered \o [l \in 1..PacketSize |-> i + l - 1]
  /\ i' = i + PacketSize
  /\ UNCHANGED <<params, operand, pc, rhs, rhsPtr, bound, j, t0, t1, t2, t3,
                 scratch, rhsReads, cols, harness>>

\* line 129: the body is over, the tail starts at alignedEnd
BodyExit ==
  /\ pc = "body"
  /\ ~(i < alignedEnd)
  /\ i' = alignedEnd
  /\ pc' = "tail"
  /\ UNCHANGED <<params, operand, res, rhs, rhsPtr, bound, j, pairLocals,
                 scratch, lhsReads, rhsReads, cols, covered, harness>>

\* lines 129-134: one iteration of the scalar tail
TailStep ==
  /\ pc = "tail"
  /\ i < endi
  /\ res' = [res EXCEPT ![i] = CAdd(res[i], CAdd(cj0(A0(i), t0), cj0(A1(i), t1)))]
  /\ t2' = CAdd(t2, cj1(A0(i), rhs[i]))
  /\ t3' = CAdd(t3, cj1(A1(i), rhs[i]))
  /\ lhsReads' = lhsReads \cup {Offset(j, i), Offset(j + 1, i)}
  /\ covered' = Append(covered, i)
  /\ i' = i + 1
  /\ UNCHANGED <<params, operand, pc, rhs, rhsPtr, bound, j, t0, t1, ptmp2, ptmp3,
                 scratch, rhsReads, cols, harness>>

\* the finalization without the scale factor
PairEndRes_Unscaled ==
  [res EXCEPT
     ![j] = CAdd(res[j], CAdd(t2, ei_predux(ptmp2))),
     ![j + 1] = CAdd(res[j + 1], CAdd(t3, ei_predux(ptmp3)))]

\* lines 136-137: res after the finalization of the column pair
PairEndRes ==
  [res EXCEPT
     ![j] = CAdd(res[j], CMul(alpha, CAdd(t2, ei_predux(ptmp2)))),
     ![j + 1] = CAdd(res[j + 1], CMul(alpha, CAdd(t3, ei_predux(ptmp3))))]

\* lines 136-138 and 71: finalization of the column pair, j += 2
PairEnd ==
  /\ pc = "tail"
  /\ ~(i < endi)
  /\ res' = PairEndRes
  /\ blockedCols' = Append(blockedCols, j)
  /\ j' = j + 2
  /\ pc' = "blocked"
  /\ UNCHANGED <<params, operand, rhs, rhsPtr, bound, i, pairLocals, scratch,
                 lhsReads, rhsReads, fallbackCols, covered, harness>>

\* lines 71 and 139: the blocked loop is over, first column of the fallback loop
BlockedExit ==
  /\ pc = "blocked"
  /\ ~(j < BlockedLimit)
  /\ j' = FallbackFirst
  /\ pc' = "fallback"
  /\ UNCHANGED <<params, operand, res, rhs, rhsPtr, bound, i, pairLocals, scratch,
                 lhsReads, rhsReads, cols, covered, harness>>

\* index range of the inner loop of the single-column fallback, line 146
FallbackFrom == IF FirstTriangular THEN 0 ELSE j + 1

FallbackTo == IF FirstTriangular THEN j ELSE size

\* the fallback column assigning res[j] instead of adding to it
FallbackRes_Overwrite ==
  LET s1 == CMul(cjAlpha, rhs[j])
      range == FallbackFrom..(FallbackTo - 1)
      s2 == SumRange([k \in range |-> cj1(A0(k), rhs[k])], FallbackFrom, FallbackTo)
  IN  [k \in DOMAIN res |->
         IF k = j
           THEN CAdd(cj0(A0(j), s1), CMul(alpha, s2))
           ELSE IF k \in range
                  THEN CAdd(res[k], cj0(A0(k), s1))
                  ELSE res[k]]

\* lines 143-150: res after column j of the single-column fallback loop
FallbackRes ==
  LET s1 == CMul(cjAlpha, rhs[j])
      range == FallbackFrom..(FallbackTo - 1)
      s2 == SumRange([k \in range |-> cj1(A0(k), rhs[k])], FallbackFrom, FallbackTo)
  IN  [k \in DOMAIN res |->
         IF k = j
           THEN CAdd(CAdd(res[j], cj0(A0(j), s1)), CMul(alpha, s2))
           ELSE IF k \in range
                  THEN CAdd(res[k], cj0(A0(k), s1))
                  ELSE res[k]]

\* lines 139-151: one column of the single-column fallback loop
FallbackColumn ==
  /\ pc = "fallback"
  /\ j < FallbackLimit
  /\ res' = FallbackRes
  /\ lhsReads' = lhsReads \cup {Offset(j, j)}
                          \cup {Offset(j, k) : k \in FallbackFrom..(FallbackTo - 1)}
  /\ fallbackCols' = Append(fallbackCols, j)
  /\ j' = j + 1
  /\ UNCHANGED <<params, operand, pc, rhs, rhsPtr, bound, i, pairLocals, scratch,
                 rhsReads, blockedCols, covered, harness>>

\* the release handed the caller's pointer
ReleasedAfter_CallerPointer == IF rhsIncr # 1 THEN Append(released, "_rhs") ELSE released

\* lines 153-154: the buffers released so far, after ei_aligned_stack_delete
ReleasedAfter == IF rhsIncr # 1 THEN Append(released, rhsPtr) ELSE released

\* lines 139 and 153-155: the fallback loop is over, release of the scratch buffer
Release ==
  /\ pc = "fallback"
  /\ ~(j < FallbackLimit)
  /\ released' = ReleasedAfter
  /\ pc' = "done"
  /\ UNCHANGED <<params, operand, res, rhs, rhsPtr, bound, j, i, pairLocals,
                 acquired, lhsReads, rhsReads, cols, covered, harness>>

----------------------------------------------------------------------------
\* Callers

\* a second call with the same matrix, operand and alpha on the same accumulator
CallAgain ==
  /\ pc = "done"
  /\ mode = "first"
  /\ mode' = "again"
  /\ resFirst' = res
  /\ EnterCall
  /\ UNCHANGED <<params, operand, res, resInit>>

\* a second call on the initial accumulator, the operand passed contiguously
CallContiguous ==
  /\ pc = "done"
  /\ mode = "first"
  /\ rhsIncr # 1
  /\ mode' = "contiguous"
  /\ resFirst' = res
  /\ res' = resInit
  /\ _rhs' = [k \in 0..(size - 1) |-> _rhs[k * rhsIncr]]
  /\ rhsIncr' = 1
  /\ EnterCall
  /\ UNCHANGED <<params, resInit>>

Next ==
  \/ Prologue
  \/ PairBegin
  \/ HeadStep
  \/ HeadExit
  \/ BodyStep
  \/ BodyExit
  \/ TailStep
  \/ PairEnd
  \/ BlockedExit
  \/ FallbackColumn
  \/ Release
  \/ CallAgain
  \/ CallContiguous

Spec == Init /\ [][Next]_vars

----------------------------------------------------------------------------
\* Reference result and properties

\* the accumulator on entry to the current call
resEntry == IF mode = "again" THEN resFirst ELSE resInit

Indices == 0..(size - 1)

ZeroVector == [k \in Indices |-> Zero]

\* entry (r, c) of the matrix the product is taken with
Aop(r, c) ==
  IF ConjugateLhs THEN ei_conj(Logical(IsComplex, r, c)) ELSE Logical(IsComplex, r, c)

\* entry c of the operand the product is taken with
Xop(c) == IF ConjugateRhs THEN ei_conj(Operand(IsComplex, c)) ELSE Operand(IsComplex, c)

\* resEntry[k] + alpha * sum_c A[k][c] * x[c], the dense reference
Dense(k) ==
  CAdd(resEntry[k],
       CMul(alpha, SumRange([c \in Indices |-> CMul(Aop(k, c), Xop(c))], 0, size)))

\* C1: for a real symmetric matrix, whatever the size, the storage order and
\* the stored triangle, the call ends with res = res_entry + alpha * A * x,
\* A being the logical matrix (the same for the four layouts).
C1_RealSymmetricProduct ==
  (pc = "done" /\ ~IsComplex) => \A k \in Indices : res[k] = Dense(k)

C1_Witness ==
  /\ pc = "done" /\ ~IsComplex /\ mode = "first"
  /\ Len(blockedCols) >= 2 /\ Len(fallbackCols) >= 8
  /\ PacketSize = 4 /\ resAddr = 1
  /\ IsRowMajor /\ ~IsLower
  /\ alpha # Zero /\ res # resEntry
  /\ \A k \in Indices : res[k] = Dense(k)

\* C2: for a complex Hermitian matrix and every setting of the conjugation
\* flags, the call ends with res = res_entry + alpha * A' * x'.
C2_HermitianProduct ==
  (pc = "done" /\ IsComplex) => \A k \in Indices : res[k] = Dense(k)

\* logical (row, column) of the matrix element at offset k of lhs
RowOf(k) == IF IsRowMajor THEN k \div lhsStride ELSE k % lhsStride

ColOf(k) == IF IsRowMajor THEN k % lhsStride ELSE k \div lhsStride

\* C3: every matrix element read lies on the stored triangle (diagonal
\* included); the complementary triangle and the padding are never read.
C3_ReadsOnStoredTriangle ==
  \A k \in lhsReads :
    /\ RowOf(k) \in Indices
    /\ ColOf(k) \in Indices
    /\ OnStoredTriangle(IsLower, RowOf(k), ColOf(k))

C3_Witness ==
  /\ pc = "done"
  /\ Len(blockedCols) >= 2
  /\ PacketSize = 4
  /\ 2 * Cardinality(lhsReads) = size * (size + 1)

CSub(a, b) == <<a[1] - b[1], a[2] - b[2]>>

\* C4: the increment of res over a call does not depend on what res held on
\* entry; two calls on a zeroed accumulator give twice the result of one.
C4_Accumulates ==
  (pc = "done" /\ mode = "again") =>
    /\ \A k \in Indices : CSub(res[k], resFirst[k]) = CSub(resFirst[k], resInit[k])
    /\ resInit = ZeroVector => \A k \in Indices : res[k] = CAdd(resFirst[k], resFirst[k])

C4_Witness ==
  /\ pc = "done" /\ mode = "again"
  /\ resInit = ZeroVector /\ resFirst # ZeroVector
  /\ Len(blockedCols) >= 2
  /\ \A k \in Indices : res[k] = CAdd(resFirst[k], resFirst[k])

\* C5: a call with a stride other than 1 gives the res of the call with
\* stride 1 on the de-interleaved operand, and reads only _rhs[i*rhsIncr].
C5_StrideEquivalence ==
  /\ (pc = "done" /\ mode = "contiguous") => res = resFirst
  /\ \A k \in rhsReads : k % rhsIncr = 0 /\ (k \div rhsIncr) \in Indices

C5_Witness ==
  /\ pc = "done" /\ mode = "contiguous"
  /\ Len(blockedCols) >= 2
  /\ alpha # Zero
  /\ res = resFirst /\ res # resInit

\* C6: with alpha = 0 the accumulator never changes.
C6_AlphaZero == alpha = Zero => res = resEntry

C6_Witness ==
  /\ pc = "done" /\ alpha = Zero
  /\ IsComplex /\ ConjugateRhs
  /\ Len(blockedCols) >= 2
  /\ res = resEntry /\ res # ZeroVector

\* C7: the scratch buffer is acquired exactly when rhsIncr # 1, released
\* exactly once, on return; the caller's operand is never released.
C7_ScratchReleased ==
  /\ pc # "entry" => acquired = (IF rhsIncr # 1 THEN <<"r">> ELSE << >>)
  /\ pc # "entry" => (rhsPtr = "r") = (rhsIncr # 1)
  /\ pc = "done" => released = acquired
  /\ pc # "done" => released = << >>
  /\ \A n \in 1..Len(released) : released[n] # "_rhs"

C7_Witness ==
  /\ pc = "done" /\ size = 0 /\ rhsIncr # 1
  /\ acquired = <<"r">> /\ released = <<"r">>

\* the transposed accumulators of the column pair, lanes reduced
Acc2 == CAdd(t2, ei_predux(ptmp2))

Acc3 == CAdd(t3, ei_predux(ptmp3))

\* C8: head, body and tail apply the same update to every index they handle:
\* res[k] += cj0(A0[k],t0) + cj0(A1[k],t1), t2 += cj1(A0[k],rhs[k]),
\* t3 += cj1(A1[k],rhs[k]).
C8_SameUpdateInEveryPhase ==
  [][(pc \in {"head", "body", "tail"} /\ i' > i) =>
       /\ \A k \in i..(i' - 1) :
            res'[k] = CAdd(res[k], CAdd(cj0(A0(k), t0), cj0(A1(k), t1)))
       /\ Acc2' = CAdd(Acc2, SumRange([k \in i..(i' - 1) |-> cj1(A0(k), rhs[k])], i, i'))
       /\ Acc3' = CAdd(Acc3, SumRange([k \in i..(i' - 1) |-> cj1(A1(k), rhs[k])], i, i'))
    ]_vars

\* max(0, size-8) rounded down to even
BlockedSpan == IF size <= 9 THEN 0 ELSE IF size % 2 = 0 THEN size - 8 ELSE size - 9

\* number of times column c was processed by either loop
TimesProcessed(c) ==
  Cardinality({n \in 1..Len(fallbackCols) : fallbackCols[n] = c})
  + Cardinality({n \in 1..Len(blockedCols) : c \in {blockedCols[n], blockedCols[n] + 1}})

\* C9: the two loops partition the columns: the blocked loop takes a
\* contiguous even span of BlockedSpan columns in pairs, the fallback loop the
\* rest, at the low end when FirstTriangular and at the high end otherwise.
C9_ColumnPartition ==
  pc = "done" =>
    /\ 2 * Len(blockedCols) = BlockedSpan
    /\ \A n \in 1..Len(blockedCols) :
         /\ blockedCols[n] >= 0 /\ blockedCols[n] + 1 < size
         /\ blockedCols[n] = (IF FirstTriangular THEN size - BlockedSpan ELSE 0) + 2 * (n - 1)
    /\ Len(fallbackCols) = size - BlockedSpan
    /\ \A n \in 1..Len(fallbackCols) :
         fallbackCols[n] = (IF FirstTriangular THEN 0 ELSE BlockedSpan) + n - 1
    /\ size <= 9 => Len(fallbackCols) = size
    /\ size > 9 => Len(fallbackCols) \in {8, 9}
    /\ \A c \in Indices : TimesProcessed(c) = 1

C9_Witness ==
  /\ pc = "done" /\ FirstTriangular
  /\ Len(blockedCols) = 2 /\ Len(fallbackCols) = 8
  /\ blockedCols[1] = 8

\* C10: the split points are ordered, the body is a whole number of packets,
\* the tail is shorter than a packet, head, body and tail visit each index of
\* [starti, endi) once and in order, and the body's accesses to res are aligned
\* and within the range.
C10_SplitPoints ==
  pc \in {"head", "body", "tail"} =>
    /\ starti <= alignedStart /\ alignedStart <= alignedEnd /\ alignedEnd <= endi
    /\ (alignedEnd - alignedStart) % PacketSize = 0
    /\ endi - alignedEnd < PacketSize
    /\ \A n \in 1..Len(covered) : covered[n] = starti + n - 1
    /\ pc = "head" => i = starti + Len(covered) /\ i <= alignedStart
    /\ pc = "body" => i = starti + Len(covered) /\ i >= alignedStart /\ i <= alignedEnd
    /\ pc = "tail" => i = starti + Len(covered) /\ i >= alignedEnd /\ i <= endi
    /\ (pc = "body" /\ i < alignedEnd) =>
         (resAddr + i) % PacketSize = 0 /\ i + PacketSize <= endi

C10_Witness ==
  /\ pc = "body" /\ i < alignedEnd /\ i > alignedStart
  /\ PacketSize = 4
  /\ starti < alignedStart /\ alignedEnd < endi
  /\ (resAddr + i) % PacketSize = 0

====
